---- MODULE Spec2Model ----
(* Model of lib/rules/no-bare-strings-in-template.js (eslint-plugin-vue):     *)
(* the whitelist matcher, the target attribute resolver with its cache, the   *)
(* element context stack and the three visitor handlers.                      *)
(*                                                                            *)
(* Strings are sequences of one-character strings.  A nullable reference is   *)
(* a sequence of length 0 (null) or 1 (the object).  A Set object is a record *)
(* [id, elems]: id is its identity (allocation number), elems its content.    *)
EXTENDS Integers, Sequences, FiniteSets, TLC

VARIABLES
  whitelistRe,   \* the compiled whitelist pattern: its alternatives, in order
  attributes,    \* parseTargetAttrs(...): [names, regexps, cache]
  directives,    \* the configured directive names
  elementStack,  \* null or the top frame [upper, name, attrs]
  nextId,        \* number of Set objects allocated so far
  failed,        \* a handler threw: the analysis is aborted
  reported,      \* the context.report calls made by the last handler call
  last,          \* the last handler call and its argument
  open,          \* traversal: the open elements, each with the stack before its enter
  entered,       \* traversal: raw names of all elements entered so far
  nBareText,     \* traversal: number of text visits whose value was bare
  nTextFindings  \* number of 'unexpected' reports made so far

vars == <<whitelistRe, attributes, directives, elementStack, nextId, failed,
          reported, last, open, entered, nBareText, nTextFindings>>

-----------------------------------------------------------------------------
(* Bounds *)

MaxLen == 3        \* longest string given to getBareString in SpecStrip
MaxTagLen == 3     \* longest tag name given to getTargetAttrs in SpecResolve
MaxDepth == 2      \* deepest element nesting in Spec
MaxCount == 2      \* most bare text visits in Spec
StackLimit == 4    \* call depth at which the engine throws RangeError

-----------------------------------------------------------------------------
(* Characters and strings *)

Lower == <<"a","b","c","d","e","f","g","h","i","j","k","l","m",
           "n","o","p","q","r","s","t","u","v","w","x","y","z">>

Upper == <<"A","B","C","D","E","F","G","H","I","J","K","L","M",
           "N","O","P","Q","R","S","T","U","V","W","X","Y","Z">>

IsLower(c) == \E i \in 1..26 : Lower[i] = c

IsUpper(c) == \E i \in 1..26 : Upper[i] = c

toUpperCase(c) == IF IsLower(c) THEN Upper[CHOOSE i \in 1..26 : Lower[i] = c] ELSE c

toLowerCase(c) == IF IsUpper(c) THEN Lower[CHOOSE i \in 1..26 : Upper[i] = c] ELSE c

IsWordChar(c) == IsLower(c) \/ IsUpper(c)

IsSpace(c) == c \in {" "}

RECURSIVE SeqsUpTo(_, _)
SeqsUpTo(S, n) ==
  IF n = 0 THEN {<<>>}
  ELSE LET shorter == SeqsUpTo(S, n - 1)
       IN  shorter \cup {Append(s, c) : s \in shorter, c \in S}

IsPrefix(p, s) == Len(p) <= Len(s) /\ SubSeq(s, 1, Len(p)) = p

Contains(s, p) == \E i \in 1..(Len(s) - Len(p) + 1) : SubSeq(s, i, i + Len(p) - 1) = p

Drop(s, n) == SubSeq(s, n + 1, Len(s))

-----------------------------------------------------------------------------
(* Whitelist matcher *)

DEFAULT_WHITELIST ==
  << <<"(">>, <<")">>, <<",">>, <<".">>, <<"&">>, <<"+">>, <<"-">>, <<"=">>,
     <<"*">>, <<"/">>, <<"#">>, <<"%">>, <<"!">>, <<"?">>, <<":">>, <<"[">>,
     <<"]">>, <<"{">>, <<"}">>, <<"<">>, <<">">>, <<"\\u00b7">>, <<"\\u2022">>,
     <<"\\u2010">>, <<"\\u2013">>, <<"\\u2014">>, <<"\\u2212">>, <<"|">> >>

\* regexp.escape makes every entry a literal; join('|') keeps their order
MakeWhitelistRe(whitelist) == whitelist

RECURSIVE TrimStart(_)
TrimStart(s) == IF s # <<>> /\ IsSpace(Head(s)) THEN TrimStart(Tail(s)) ELSE s

RECURSIVE TrimEnd(_)
TrimEnd(s) ==
  IF s # <<>> /\ IsSpace(s[Len(s)]) THEN TrimEnd(SubSeq(s, 1, Len(s) - 1)) ELSE s

trim(s) == TrimEnd(TrimStart(s))

\* the first alternative, in pattern order, that matches at the start of s; 0 if none
FirstAlt(s, re) ==
  IF \E i \in 1..Len(re) : IsPrefix(re[i], s)
  THEN CHOOSE i \in 1..Len(re) :
         IsPrefix(re[i], s) /\ \A j \in 1..(i - 1) : ~IsPrefix(re[j], s)
  ELSE 0

\* str.replace(re, '') for a global pattern: one left-to-right pass; an empty
\* match removes nothing and the scan moves on by one character
RECURSIVE ReplaceAll(_, _)
ReplaceAll(s, re) ==
  IF s = <<>> THEN <<>>
  ELSE LET m == FirstAlt(s, re)
       IN  IF m = 0 \/ Len(re[m]) = 0
           THEN <<Head(s)>> \o ReplaceAll(Tail(s), re)
           ELSE ReplaceAll(Drop(s, Len(re[m])), re)

\* getBareString with a fault: the result is not trimmed again
getBareStringNoSecondTrim(str) == ReplaceAll(trim(str), whitelistRe)

getBareString(str) == trim(ReplaceAll(trim(str), whitelistRe))

-----------------------------------------------------------------------------
(* SpecStrip: getBareString applied to every string up to MaxLen *)

StripChars == {" ", "(", "a", "b"}

StripStrings == SeqsUpTo(StripChars, MaxLen)

Whitelists ==
  { DEFAULT_WHITELIST,
    << <<"(">>, <<"b">> >>,
    << >>,
    << <<"a","b">>, <<"(">> >>,
    << <<"a">>, <<"a","b">> >>,
    << <<" ">>, <<"a">> >> }

Null == <<>>

NoCall == [kind |-> "none"]

StripInit ==
  /\ whitelistRe \in {MakeWhitelistRe(w) : w \in Whitelists}
  /\ attributes = [names |-> <<>>, regexps |-> <<>>, cache |-> <<>>]
  /\ directives = <<>>
  /\ elementStack = Null
  /\ nextId = 0
  /\ failed = FALSE
  /\ reported = <<>>
  /\ last = NoCall
  /\ open = <<>>
  /\ entered = {}
  /\ nBareText = 0
  /\ nTextFindings = 0

Strip(s) ==
  /\ last.kind = "none"
  /\ last' = [kind |-> "strip", str |-> s, out |-> getBareString(s)]
  /\ UNCHANGED <<whitelistRe, attributes, directives, elementStack, nextId, failed,
                 reported, open, entered, nBareText, nTextFindings>>

StripAgain ==
  /\ last.kind = "strip"
  /\ last' = [kind |-> "strip2", str |-> last.str, out |-> last.out,
              again |-> getBareString(last.out)]
  /\ UNCHANGED <<whitelistRe, attributes, directives, elementStack, nextId, failed,
                 reported, open, entered, nBareText, nTextFindings>>

StripNext == (\E s \in StripStrings : Strip(s)) \/ StripAgain

SpecStrip == StripInit /\ [][StripNext]_vars

SingleChars(re) == \A i \in 1..Len(re) : Len(re[i]) = 1

\* C6 as stated: for every whitelist, strip is idempotent and its output holds
\* no occurrence of a whitelist entry
C6_AsClaimed ==
  last.kind = "strip2" =>
    /\ last.again = last.out
    /\ \A i \in 1..Len(whitelistRe) : ~Contains(last.out, whitelistRe[i])

\* C6 amended: when every whitelist entry is exactly one character long,
\* strip(strip(s)) = strip(s) and strip(s) holds no whitelist entry
C6_StripIdempotentSingleChars ==
  (last.kind = "strip2" /\ SingleChars(whitelistRe)) =>
    /\ last.again = last.out
    /\ \A i \in 1..Len(whitelistRe) : ~Contains(last.out, whitelistRe[i])

\* a string with whitelisted characters and inner whitespace was stripped twice
C6_Witness ==
  /\ last.kind = "strip2"
  /\ SingleChars(whitelistRe)
  /\ whitelistRe # <<>>
  /\ last.str = <<"(", " ", "a">>
  /\ last.out = <<"a">>

-----------------------------------------------------------------------------
(* utils/casing and utils/regexp, as the rule uses them *)

hasUpper(str) == \E i \in 1..Len(str) : IsUpper(str[i])

isKebabCase(str) ==
  ~ \/ hasUpper(str)
    \/ (str # <<>> /\ str[1] = "-")
    \/ Contains(str, <<"-", "-">>)
    \/ \E i \in 1..Len(str) : IsSpace(str[i]) \/ str[i] = "_"

isPascalCase(str) ==
  /\ ~(str # <<>> /\ IsLower(str[1]))
  /\ ~ \E i \in 1..Len(str) : str[i] = "-" \/ str[i] = "_" \/ IsSpace(str[i])

capitalize(str) == IF str = <<>> THEN str ELSE <<toUpperCase(str[1])>> \o Tail(str)

\* str.replace(/[-_](\w)/gu, (_, c) => c.toUpperCase())
RECURSIVE HyphenToUpper(_)
HyphenToUpper(s) ==
  IF s = <<>> THEN <<>>
  ELSE IF Len(s) >= 2 /\ s[1] \in {"-", "_"} /\ IsWordChar(s[2])
       THEN <<toUpperCase(s[2])>> \o HyphenToUpper(Drop(s, 2))
       ELSE <<Head(s)>> \o HyphenToUpper(Tail(s))

camelCase(str) ==
  IF isPascalCase(str) /\ str # <<>>
  THEN <<toLowerCase(str[1])>> \o Tail(str)
  ELSE HyphenToUpper(str)

pascalCase(str) == capitalize(camelCase(str))

\* An option key is a tag name or a /pattern/.  The patterns of the model:
\* "any" is /.+/, "prefix" is /^lit/, "contains" is /lit/.
NameKey(name) == [isRegExp |-> FALSE, form |-> "name", lit |-> name]

PatternKey(form, lit) == [isRegExp |-> TRUE, form |-> form, lit |-> lit]

isRegExp(key) == key.isRegExp

toRegExp(key) == [form |-> key.form, lit |-> key.lit]

\* name.lastIndex = 0; name.test(tagName)
RegExpTest(re, str) ==
  CASE re.form = "any" -> Len(str) >= 1
    [] re.form = "prefix" -> IsPrefix(re.lit, str)
    [] re.form = "contains" -> Contains(str, re.lit)
    [] OTHER -> FALSE

-----------------------------------------------------------------------------
(* Target attribute resolver *)

input == <<"i","n","p","u","t">>

img == <<"i","m","g">>

DEFAULT_ATTRIBUTES ==
  << [key |-> PatternKey("any", <<>>),
      attrs |-> <<"title", "aria-label", "aria-placeholder",
                  "aria-roledescription", "aria-valuetext">>],
     [key |-> NameKey(input), attrs |-> <<"placeholder">>],
     [key |-> NameKey(img), attrs |-> <<"alt">>] >>

DEFAULT_DIRECTIVES == <<"v-text">>

Range(f) == {f[x] : x \in DOMAIN f}

\* new Set(iterable): a fresh object, id the allocation number
NewSet(id, elems) == [id |-> id, elems |-> elems]

\* options is the list of Object.keys(options) entries, in order
parseTargetAttrs(options) ==
  LET nameIdx == {i \in 1..Len(options) : ~isRegExp(options[i].key)}
      reIdx == {i \in 1..Len(options) : isRegExp(options[i].key)}
      attrsOf(i) == NewSet(i, Range(options[i].attrs))
      nthRe(k) == CHOOSE i \in reIdx : Cardinality({j \in reIdx : j <= i}) = k
  IN  [names |-> [n \in {options[i].key.lit : i \in nameIdx} |->
                    attrsOf(CHOOSE i \in nameIdx : options[i].key.lit = n)],
       regexps |-> [k \in 1..Cardinality(reIdx) |->
                      [name |-> toRegExp(options[nthRe(k)].key),
                       attrs |-> attrsOf(nthRe(k))]],
       cache |-> <<>>]

Overflow(at, nid, d) ==
  [ok |-> FALSE, ret |-> NewSet(0, {}), attributes |-> at, nextId |-> nid, depth |-> d]

RECURSIVE getTargetAttrs(_, _, _, _)

\* getTargetAttrs with a fault: the cache is never consulted
getTargetAttrsNoCacheHit(tagName, at, nid, d) ==
  IF d > StackLimit THEN Overflow(at, nid, d)
  ELSE
    LET byName == IF tagName \in DOMAIN at.names THEN at.names[tagName].elems ELSE {}
        byRe == UNION {at.regexps[i].attrs.elems :
                         i \in {j \in DOMAIN at.regexps : RegExpTest(at.regexps[j].name, tagName)}}
        sub == IF isKebabCase(tagName)
               THEN getTargetAttrs(pascalCase(tagName), at, nid, d + 1)
               ELSE [ok |-> TRUE, ret |-> NewSet(0, {}), attributes |-> at,
                     nextId |-> nid, depth |-> d]
        obj == NewSet(sub.nextId + 1, byName \cup byRe \cup sub.ret.elems)
    IN  IF ~sub.ok THEN sub
        ELSE [ok |-> TRUE, ret |-> obj,
              attributes |-> [sub.attributes EXCEPT !.cache = (tagName :> obj) @@ @],
              nextId |-> sub.nextId + 1, depth |-> sub.depth]

\* getTargetAttrs with a fault: the alias hop is taken for every name, kebab or not
getTargetAttrsAlwaysAlias(tagName, at, nid, d) ==
  IF d > StackLimit THEN Overflow(at, nid, d)
  ELSE IF tagName \in DOMAIN at.cache
  THEN [ok |-> TRUE, ret |-> at.cache[tagName], attributes |-> at, nextId |-> nid, depth |-> d]
  ELSE
    LET byName == IF tagName \in DOMAIN at.names THEN at.names[tagName].elems ELSE {}
        byRe == UNION {at.regexps[i].attrs.elems :
                         i \in {j \in DOMAIN at.regexps : RegExpTest(at.regexps[j].name, tagName)}}
        sub == getTargetAttrs(pascalCase(tagName), at, nid, d + 1)
        obj == NewSet(sub.nextId + 1, byName \cup byRe \cup sub.ret.elems)
    IN  IF ~sub.ok THEN sub
        ELSE [ok |-> TRUE, ret |-> obj,
              attributes |-> [sub.attributes EXCEPT !.cache = (tagName :> obj) @@ @],
              nextId |-> sub.nextId + 1, depth |-> sub.depth]

\* getTargetAttrs with a fault: pattern-keyed entries are not consulted
getTargetAttrsNoPatterns(tagName, at, nid, d) ==
  IF d > StackLimit THEN Overflow(at, nid, d)
  ELSE IF tagName \in DOMAIN at.cache
  THEN [ok |-> TRUE, ret |-> at.cache[tagName], attributes |-> at, nextId |-> nid, depth |-> d]
  ELSE
    LET byName == IF tagName \in DOMAIN at.names THEN at.names[tagName].elems ELSE {}
        sub == IF isKebabCase(tagName)
               THEN getTargetAttrs(pascalCase(tagName), at, nid, d + 1)
               ELSE [ok |-> TRUE, ret |-> NewSet(0, {}), attributes |-> at,
                     nextId |-> nid, depth |-> d]
        obj == NewSet(sub.nextId + 1, byName \cup sub.ret.elems)
    IN  IF ~sub.ok THEN sub
        ELSE [ok |-> TRUE, ret |-> obj,
              attributes |-> [sub.attributes EXCEPT !.cache = (tagName :> obj) @@ @],
              nextId |-> sub.nextId + 1, depth |-> sub.depth]

\* getTargetAttrs with a fault: the result is cached under the Pascal-case
\* spelling of the name
getTargetAttrsPascalKey(tagName, at, nid, d) ==
  IF d > StackLimit THEN Overflow(at, nid, d)
  ELSE IF tagName \in DOMAIN at.cache
  THEN [ok |-> TRUE, ret |-> at.cache[tagName], attributes |-> at, nextId |-> nid, depth |-> d]
  ELSE
    LET byName == IF tagName \in DOMAIN at.names THEN at.names[tagName].elems ELSE {}
        byRe == UNION {at.regexps[i].attrs.elems :
                         i \in {j \in DOMAIN at.regexps : RegExpTest(at.regexps[j].name, tagName)}}
        sub == IF isKebabCase(tagName)
               THEN getTargetAttrs(pascalCase(tagName), at, nid, d + 1)
               ELSE [ok |-> TRUE, ret |-> NewSet(0, {}), attributes |-> at,
                     nextId |-> nid, depth |-> d]
        obj == NewSet(sub.nextId + 1, byName \cup byRe \cup sub.ret.elems)
    IN  IF ~sub.ok THEN sub
        ELSE [ok |-> TRUE, ret |-> obj,
              attributes |-> [sub.attributes EXCEPT
                                !.cache = (pascalCase(tagName) :> obj) @@ @],
              nextId |-> sub.nextId + 1, depth |-> sub.depth]

\* getTargetAttrs(tagName) called at call depth d with the resolver state at and
\* nid Set objects allocated.  ok = FALSE: the call stack overflowed (RangeError).
\* depth is the deepest call depth reached.  result is kept as a set: only
\* new Set(result) is ever read.
getTargetAttrs(tagName, at, nid, d) ==
  IF d > StackLimit THEN Overflow(at, nid, d)
  ELSE IF tagName \in DOMAIN at.cache
  THEN [ok |-> TRUE, ret |-> at.cache[tagName], attributes |-> at, nextId |-> nid, depth |-> d]
  ELSE
    LET byName == IF tagName \in DOMAIN at.names THEN at.names[tagName].elems ELSE {}
        byRe == UNION {at.regexps[i].attrs.elems :
                         i \in {j \in DOMAIN at.regexps : RegExpTest(at.regexps[j].name, tagName)}}
        sub == IF isKebabCase(tagName)
               THEN getTargetAttrs(pascalCase(tagName), at, nid, d + 1)
               ELSE [ok |-> TRUE, ret |-> NewSet(0, {}), attributes |-> at,
                     nextId |-> nid, depth |-> d]
        obj == NewSet(sub.nextId + 1, byName \cup byRe \cup sub.ret.elems)
    IN  IF ~sub.ok THEN sub
        ELSE [ok |-> TRUE, ret |-> obj,
              attributes |-> [sub.attributes EXCEPT !.cache = (tagName :> obj) @@ @],
              nextId |-> sub.nextId + 1, depth |-> sub.depth]

-----------------------------------------------------------------------------
(* SpecResolve: getTargetAttrs called twice in one run, on every tag name up *)
(* to MaxTagLen, under several attribute options                              *)

TagChars == {"a", "A", "-"}

ResolveNames == {t \in SeqsUpTo(TagChars, MaxTagLen) : t # <<>> /\ IsWordChar(t[1])}

AttributeOptions ==
  { DEFAULT_ATTRIBUTES,
    << [key |-> NameKey(<<"A","A">>), attrs |-> <<"label">>],
       [key |-> NameKey(<<"a","-","a">>), attrs |-> <<"alt">>],
       [key |-> PatternKey("prefix", <<"a","-">>), attrs |-> <<"title">>] >>,
    << [key |-> NameKey(<<"a">>), attrs |-> <<"placeholder">>],
       [key |-> NameKey(<<"A">>), attrs |-> <<"label">>],
       [key |-> PatternKey("contains", <<"A">>), attrs |-> <<"alt">>],
       [key |-> PatternKey("any", <<>>), attrs |-> <<"title", "label">>] >> }

ResolveInit ==
  /\ whitelistRe = MakeWhitelistRe(DEFAULT_WHITELIST)
  /\ \E o \in AttributeOptions :
       /\ attributes = parseTargetAttrs(o)
       /\ nextId = Len(o)
  /\ directives = DEFAULT_DIRECTIVES
  /\ elementStack = Null
  /\ failed = FALSE
  /\ reported = <<>>
  /\ last = NoCall
  /\ open = <<>>
  /\ entered = {}
  /\ nBareText = 0
  /\ nTextFindings = 0

Resolve(t, n) ==
  LET r == getTargetAttrs(t, attributes, nextId, 1)
  IN  /\ last' = [kind |-> "resolve", call |-> n, tagName |-> t, before |-> attributes.cache,
                  ok |-> r.ok, ret |-> r.ret, depth |-> r.depth]
      /\ attributes' = r.attributes
      /\ nextId' = r.nextId
      /\ failed' = ~r.ok
      /\ UNCHANGED <<whitelistRe, directives, elementStack, reported, open, entered,
                     nBareText, nTextFindings>>

ResolveFirst == last.kind = "none" /\ \E t \in ResolveNames : Resolve(t, 1)

ResolveSecond ==
  last.kind = "resolve" /\ last.call = 1 /\ ~failed /\ \E t \in ResolveNames : Resolve(t, 2)

ResolveNext == ResolveFirst \/ ResolveSecond

SpecResolve == ResolveInit /\ [][ResolveNext]_vars

NamedAttrs(t) == IF t \in DOMAIN attributes.names THEN attributes.names[t].elems ELSE {}

PatternAttrs(t) ==
  UNION {attributes.regexps[i].attrs.elems :
           i \in {j \in DOMAIN attributes.regexps : RegExpTest(attributes.regexps[j].name, t)}}

\* what section 4.2 of the design asks of resolve(t)
ExpectedAttrs(t) ==
  NamedAttrs(t) \cup PatternAttrs(t) \cup
    (IF isKebabCase(t) THEN NamedAttrs(pascalCase(t)) \cup PatternAttrs(pascalCase(t))
     ELSE {})

C9_OneAliasHop ==
  last.kind = "resolve" =>
    /\ last.ok
    /\ last.depth <= 2
    /\ last.depth = 2 => isKebabCase(last.tagName) /\ last.tagName \notin DOMAIN last.before
    /\ isKebabCase(last.tagName) =>
         /\ ~isKebabCase(pascalCase(last.tagName))
         /\ pascalCase(last.tagName) # last.tagName

\* a kebab-case name was resolved through its alias
C9_Witness ==
  /\ last.kind = "resolve"
  /\ last.tagName = <<"a","-","a">>
  /\ last.depth = 2
  /\ last.ok

-----------------------------------------------------------------------------
(* The rule: create(context) and the visitor handlers *)

\* getStringValue with a fault: any literal's value is taken, string or not
getStringValueAnyLiteral(value) ==
  IF value.expression = Null THEN Null
  ELSE IF value.expression[1].type # "Literal" THEN Null
  ELSE <<value.expression[1].value>>

\* null, or the string of a string-literal expression
getStringValue(value) ==
  IF value.expression = Null THEN Null
  ELSE IF value.expression[1].type # "Literal" THEN Null
  ELSE IF value.expression[1].typeofValue = "string" THEN <<value.expression[1].value>>
  ELSE Null

Report(node, messageId, data) == [node |-> node, messageId |-> messageId, data |-> data]

\* VText with a fault: a text equal to the one visited just before is not reported again
VTextReportsDedup(node) ==
  IF getBareString(node.value) # <<>> /\ ~(last.kind = "text" /\ last.node = node)
  THEN <<Report(node, "unexpected", Null)>>
  ELSE <<>>

\* the context.report calls of VText(node)
VTextReports(node) ==
  IF getBareString(node.value) # <<>>
  THEN <<Report(node, "unexpected", Null)>>
  ELSE <<>>

Done(reports) == [threw |-> FALSE, reports |-> reports]

Threw == [threw |-> TRUE, reports |-> <<>>]

DirectiveOutcome(node) ==
  LET directive == "v-" \o node.key.name.name
  IN  IF ~ \E i \in 1..Len(directives) : directives[i] = directive THEN Done(<<>>)
      ELSE LET str == getStringValue(node.value[1])
           IN  IF str # Null /\ str[1] # <<>> /\ getBareString(str[1]) # <<>>
               THEN Done(<<Report(node.value[1], "unexpectedInAttr", <<directive>>)>>)
               ELSE Done(<<>>)

\* VAttribute with a fault: the target set is not consulted
VAttributeOutcomeAnyKey(node) ==
  IF node.value = Null THEN Done(<<>>)
  ELSE IF node.directive = FALSE
  THEN IF elementStack = Null THEN Threw
       ELSE IF getBareString(node.value[1].value) # <<>>
            THEN Done(<<Report(node.value[1], "unexpectedInAttr", <<node.key.rawName>>)>>)
            ELSE Done(<<>>)
  ELSE DirectiveOutcome(node)

\* VAttribute with a fault: elementStack?.attrs, a missing frame is skipped silently
VAttributeOutcomeOptionalChain(node) ==
  IF node.value = Null THEN Done(<<>>)
  ELSE IF node.directive = FALSE
  THEN IF elementStack = Null THEN Done(<<>>)
       ELSE LET attrs == elementStack[1].attrs
            IN  IF node.key.rawName \notin attrs.elems THEN Done(<<>>)
                ELSE IF getBareString(node.value[1].value) # <<>>
                THEN Done(<<Report(node.value[1], "unexpectedInAttr", <<node.key.rawName>>)>>)
                ELSE Done(<<>>)
  ELSE DirectiveOutcome(node)

\* VAttribute(node): whether it threw (elementStack.attrs of null is a TypeError)
\* and its context.report calls
VAttributeOutcome(node) ==
  IF node.value = Null THEN Done(<<>>)
  ELSE IF node.directive = FALSE
  THEN IF elementStack = Null THEN Threw
       ELSE LET attrs == elementStack[1].attrs
            IN  IF node.key.rawName \notin attrs.elems THEN Done(<<>>)
                ELSE IF getBareString(node.value[1].value) # <<>>
                THEN Done(<<Report(node.value[1], "unexpectedInAttr", <<node.key.rawName>>)>>)
                ELSE Done(<<>>)
  ELSE DirectiveOutcome(node)

\* 'VElement:exit' with a fault: the whole context is dropped
PopFrameToNull(stack) == Null

\* elementStack.upper
PopFrame(stack) == stack[1].upper

PushFrame(stack, name, attrs) == <<[upper |-> stack, name |-> name, attrs |-> attrs]>>

RECURSIVE Depth(_)
Depth(stack) == IF stack = Null THEN 0 ELSE 1 + Depth(stack[1].upper)

RECURSIVE Frames(_)
Frames(stack) == IF stack = Null THEN {} ELSE {stack[1]} \cup Frames(stack[1].upper)

-----------------------------------------------------------------------------
(* Spec: the handlers, called by a traversal over bounded nodes *)

TagNames == {input, <<"a","-","a">>, <<"A","A">>}

Values == {<<>>, <<"a">>, <<"(", " ", ")">>, <<" ", "(", "a">>}

TextValues == Values \cup {<<" ">>}

AttrKeys == {"title", "placeholder", "label"}

DirectiveNames == {"text", "html"}

Options ==
  { [whitelist |-> DEFAULT_WHITELIST, attributes |-> DEFAULT_ATTRIBUTES,
     directives |-> DEFAULT_DIRECTIVES],
    [whitelist |-> << <<"(">>, <<"a">> >>,
     attributes |-> << [key |-> NameKey(<<"A","A">>), attrs |-> <<"label">>],
                       [key |-> NameKey(<<"a","-","a">>), attrs |-> <<"placeholder">>],
                       [key |-> PatternKey("prefix", <<"a","-">>), attrs |-> <<"title">>] >>,
     directives |-> <<"v-html", "v-text">>] }

TextNodes == {[type |-> "VText", value |-> v] : v \in TextValues}

ElementNodes == {[type |-> "VElement", rawName |-> t] : t \in TagNames}

PlainAttributes ==
  {[directive |-> FALSE, key |-> [rawName |-> k], value |-> v] :
     k \in AttrKeys, v \in {Null} \cup {<<[type |-> "VLiteral", value |-> s]>> : s \in Values}}

Expressions ==
  {[type |-> "Identifier", typeofValue |-> "undefined", value |-> <<>>],
   [type |-> "Literal", typeofValue |-> "number", value |-> <<"1">>]}
  \cup {[type |-> "Literal", typeofValue |-> "string", value |-> s] : s \in Values}

Directives ==
  {[directive |-> TRUE, key |-> [name |-> [name |-> n]], value |-> v] :
     n \in DirectiveNames,
     v \in {Null} \cup {<<[type |-> "VExpressionContainer", expression |-> e]>> :
                          e \in {Null} \cup {<<x>> : x \in Expressions}}}

Init ==
  /\ \E o \in Options :
       /\ whitelistRe = MakeWhitelistRe(o.whitelist)
       /\ attributes = parseTargetAttrs(o.attributes)
       /\ directives = o.directives
       /\ nextId = Len(o.attributes)
  /\ elementStack = Null
  /\ failed = FALSE
  /\ reported = <<>>
  /\ last = NoCall
  /\ open = <<>>
  /\ entered = {}
  /\ nBareText = 0
  /\ nTextFindings = 0

IsBare(str) == getBareString(str) # <<>>

VText(node) ==
  /\ ~failed
  /\ IsBare(node.value) => nBareText < MaxCount
  /\ reported' = VTextReports(node)
  /\ nTextFindings' = nTextFindings + Len(reported')
  /\ nBareText' = nBareText + (IF IsBare(node.value) THEN 1 ELSE 0)
  /\ last' = [kind |-> "text", node |-> node,
              repeat |-> (last.kind = "text" /\ last.node = node)]
  /\ UNCHANGED <<whitelistRe, attributes, directives, elementStack, nextId, failed,
                 open, entered>>

VElement(node) ==
  /\ ~failed
  /\ Len(open) < MaxDepth
  /\ LET r == getTargetAttrs(node.rawName, attributes, nextId, 1)
     IN  /\ failed' = ~r.ok
         /\ attributes' = r.attributes
         /\ nextId' = r.nextId
         /\ elementStack' = IF r.ok THEN PushFrame(elementStack, node.rawName, r.ret)
                            ELSE elementStack
         /\ last' = [kind |-> "element", node |-> node, before |-> elementStack]
  /\ open' = Append(open, [name |-> node.rawName, before |-> elementStack])
  /\ entered' = entered \cup {node.rawName}
  /\ reported' = <<>>
  /\ UNCHANGED <<whitelistRe, directives, nBareText, nTextFindings>>

VElementExit ==
  /\ ~failed
  /\ \/ /\ elementStack # Null
        /\ elementStack' = PopFrame(elementStack)
        /\ open' = SubSeq(open, 1, Len(open) - 1)
        /\ last' = [kind |-> "exit", before |-> open[Len(open)].before]
        /\ UNCHANGED failed
     \/ /\ elementStack = Null
        /\ failed' = TRUE
        /\ last' = [kind |-> "exit", before |-> Null]
        /\ UNCHANGED <<elementStack, open>>
  /\ reported' = <<>>
  /\ UNCHANGED <<whitelistRe, attributes, directives, nextId, entered, nBareText,
                 nTextFindings>>

VAttribute(node) ==
  /\ ~failed
  /\ LET r == VAttributeOutcome(node)
     IN  /\ failed' = r.threw
         /\ reported' = r.reports
  /\ last' = [kind |-> "attribute", node |-> node]
  /\ UNCHANGED <<whitelistRe, attributes, directives, elementStack, nextId, open,
                 entered, nBareText, nTextFindings>>

Next ==
  \/ \E node \in TextNodes : VText(node)
  \/ \E node \in ElementNodes : VElement(node)
  \/ VElementExit
  \/ \E node \in PlainAttributes \cup Directives : VAttribute(node)

Spec == Init /\ [][Next]_vars

-----------------------------------------------------------------------------
(* Properties of Spec *)

InnermostOpen == open[Len(open)].name

AttrFinding(node, name) == Report(node.value[1], "unexpectedInAttr", <<name>>)

IsStringLiteral(value) ==
  /\ value.expression # Null
  /\ value.expression[1].type = "Literal"
  /\ value.expression[1].typeofValue = "string"

\* C2: a directive yields one finding naming 'v-' + its name when that name is
\* a configured directive, its expression is a string literal and the stripped
\* literal is non-empty; otherwise none, whatever element encloses it
C2_DirectiveFinding ==
  (last.kind = "attribute" /\ last.node.directive) =>
    /\ ~failed
    /\ reported =
         IF /\ \E i \in 1..Len(directives) :
                 directives[i] = "v-" \o last.node.key.name.name
            /\ last.node.value # Null
            /\ IsStringLiteral(last.node.value[1])
            /\ IsBare(last.node.value[1].expression[1].value)
         THEN <<AttrFinding(last.node, "v-" \o last.node.key.name.name)>>
         ELSE <<>>

\* v-text bound to a bare string literal was reported
C2_Witness ==
  /\ last.kind = "attribute" /\ last.node.directive
  /\ last.node.key.name.name = "text"
  /\ last.node.value # Null /\ IsStringLiteral(last.node.value[1])
  /\ reported = <<AttrFinding(last.node, "v-text")>>
  /\ Len(open) = 1
  /\ InnermostOpen = input

\* C3: a text visit yields one 'unexpected' finding at the node when its
\* stripped value is non-empty and none otherwise, and the findings made so far
\* are as many as the bare text visits
C3_TextFindings ==
  /\ nTextFindings = nBareText
  /\ last.kind = "text" =>
       reported = IF trim(ReplaceAll(trim(last.node.value), whitelistRe)) # <<>>
                  THEN <<Report(last.node, "unexpected", Null)>>
                  ELSE <<>>

\* the same bare text was visited twice in a row and reported both times
C3_Witness ==
  /\ last.kind = "text" /\ last.repeat
  /\ last.node.value = <<" ", "(", "a">>
  /\ whitelistRe = DEFAULT_WHITELIST
  /\ nTextFindings = 2
  /\ reported = <<Report(last.node, "unexpected", Null)>>

\* C5 as stated: every attribute or directive visit made with no open element
\* throws and yields no finding
C5_AsClaimed ==
  (last.kind = "attribute" /\ elementStack = Null) => (failed /\ reported = <<>>)

\* C5 amended: with no open element, a plain attribute that has a value throws
\* and yields no finding; an attribute without a value is skipped and a
\* directive is handled as inside an element, neither throws
C5_EmptyStackAttribute ==
  (last.kind = "attribute" /\ elementStack = Null) =>
    /\ failed <=> (~last.node.directive /\ last.node.value # Null)
    /\ ~last.node.directive => reported = <<>>

\* a plain attribute with a value was visited with no open element and threw
C5_Witness ==
  /\ last.kind = "attribute" /\ elementStack = Null
  /\ ~last.node.directive /\ last.node.value # Null
  /\ failed

\* C7: the stack is as deep as the open elements are many, its top frame holds
\* the innermost open element's name and resolved set, each frame's upper is
\* the stack that was in effect before its element's enter, and an exit puts
\* exactly that stack back
C7_StackMirrorsNesting ==
  /\ Depth(elementStack) = Len(open)
  /\ Len(open) = 0 => elementStack = Null
  /\ Len(open) > 0 =>
       /\ elementStack[1].name = InnermostOpen
       /\ elementStack[1].attrs.elems = ExpectedAttrs(InnermostOpen)
       /\ elementStack[1].upper = open[Len(open)].before
  /\ (last.kind = "exit" /\ ~failed) => elementStack = last.before

\* an inner element was left and the outer element's frame is in effect again
C7_Witness ==
  /\ last.kind = "exit" /\ ~failed
  /\ Len(open) = 1
  /\ elementStack # Null
  /\ elementStack[1].name = input
  /\ elementStack[1].upper = Null
  /\ Cardinality(entered) = 2

CacheStable ==
  /\ attributes'.names = attributes.names
  /\ attributes'.regexps = attributes.regexps
  /\ \A t \in DOMAIN attributes.cache :
       /\ t \in DOMAIN attributes'.cache
       /\ attributes'.cache[t] = attributes.cache[t]

====
